---- MODULE Spec2Model ----
(***************************************************************************)
(* Model of beacon_node/websocket_server/src/lib.rs: the Config record,    *)
(* the WebSocketSender handle (dummy or live), send_string, the            *)
(* EventHandler::register implementation and start_server with its         *)
(* background listener thread.  The ws library (WebSocket, Sender) and the *)
(* operating system's socket table are the environment.                    *)
(***************************************************************************)
EXTENDS Integers, Sequences, FiniteSets, TLC

VARIABLES handles, servers, bound, log, conn, frames, last, ncalls, th, okDone

vars == <<handles, servers, bound, log, conn, frames, last, ncalls, th, okDone>>

(* ------------------------------ bounds -------------------------------- *)

\* start_server calls explored
MaxStarts == 1
\* dummy() calls explored
MaxDummies == 1
\* send_string / register calls explored
MaxCalls == 2
\* commands the broadcaster's channel holds before it reports an error
QueueCap == 1
\* caller threads of the concurrent specification
NThreads == 2

(* --------------------------- configuration ---------------------------- *)

DefaultPort == 5053

\* impl Default for Config
DefaultConfig ==
    [enabled |-> TRUE, listen_address |-> <<127, 0, 0, 1>>, port |-> DefaultPort]

\* The Config values the model starts servers from.
Configs ==
    [enabled : BOOLEAN, listen_address : {<<127, 0, 0, 1>>}, port : {DefaultPort}]

NoConfig == [enabled |-> FALSE, listen_address |-> <<0, 0, 0, 0>>, port |-> 0]

Digit == <<"0", "1", "2", "3", "4", "5", "6", "7", "8", "9">>

\* Display of an unsigned integer (u8 octet, u16 port)
RECURSIVE ToDec(_)
ToDec(n) == IF n < 10 THEN Digit[n + 1]
            ELSE ToDec(n \div 10) \o Digit[(n % 10) + 1]

\* Display of an Ipv4Addr: dotted quad
FmtIpv4(a) ==
    ToDec(a[1]) \o "." \o ToDec(a[2]) \o "." \o ToDec(a[3]) \o "." \o ToDec(a[4])

\* format!("{}:{}", config.listen_address, config.port)
server_string(config) == FmtIpv4(config.listen_address) \o ":" \o ToDec(config.port)

Addrs == {server_string(c) : c \in Configs}

(* ------------------------------ results ------------------------------- *)

Ok == [ok |-> TRUE, err |-> ""]
Err(s) == [ok |-> FALSE, err |-> s]

None == [some |-> FALSE, val |-> 0]
Some(v) == [some |-> TRUE, val |-> v]

(* ------------------------------- events ------------------------------- *)

\* EventKind values: a serializable one and one whose serialization fails.
Events ==
    {[kind |-> "test", value |-> 1], [kind |-> "nonstring_key", value |-> 0]}

NoEvent == [kind |-> "", value |-> 0]

\* serde_json::to_string(&kind)
to_string(kind) ==
    IF kind.kind = "nonstring_key"
    THEN [ok |-> FALSE, val |-> "", err |-> "KeyMustBeAString"]
    ELSE [ok |-> TRUE,
          val |-> "{\"kind\":\"" \o kind.kind \o "\",\"value\":"
                     \o ToDec(kind.value) \o "}",
          err |-> ""]

\* format!("{:?}", kind): the Debug rendering, which is not JSON
debug_string(kind) ==
    "EventKind { kind: \"" \o kind.kind \o "\", value: " \o ToDec(kind.value) \o " }"

\* Texts passed to send_string directly.
Texts == {"", "{\"kind\":\"test\",\"value\":1}"}

AllTexts == Texts \cup {to_string(e).val : e \in Events}

(* ------------------------- the ws broadcaster ------------------------- *)

\* ws::Sender::send on the broadcaster of server srv: the command is queued
\* for the listener's event loop, or an error is reported when the loop is
\* gone (the WebSocket was dropped with the listener thread) or the channel
\* is full.
BroadcasterSend(srv, string) ==
    IF srv.st \in {"stopped", "failed"}
    THEN [res |-> Err("Queue(Disconnected)"), srv |-> srv]
    ELSE IF Len(srv.sent) - srv.ndeliv >= QueueCap
    THEN [res |-> Err("Queue(Full)"), srv |-> srv]
    ELSE [res |-> Ok, srv |-> [srv EXCEPT !.sent = Append(@, string)]]

\* .map_err(|e| format!(prefix, e))
map_err(res, prefix) == IF res.ok THEN res ELSE Err(prefix \o res.err)

(* --------------------------- WebSocketSender -------------------------- *)

\* WebSocketSender::dummy()
dummy == [sender |-> None]

\* Variant: a handle without a broadcaster reports an error.
send_string_dummy_err(self, string, srvs) ==
    IF self.sender.some
    THEN LET i == self.sender.val
             r == BroadcasterSend(srvs[i], string)
         IN  [res |-> map_err(r.res, "Unable to broadcast to websocket clients: "),
              servers |-> [srvs EXCEPT ![i] = r.srv]]
    ELSE [res |-> Err("Unable to broadcast to websocket clients: no server"),
          servers |-> srvs]

\* Variant: the broadcaster's error is dropped (.ok() instead of map_err).
send_string_swallow(self, string, srvs) ==
    IF self.sender.some
    THEN LET i == self.sender.val
             r == BroadcasterSend(srvs[i], string)
         IN  [res |-> Ok, servers |-> [srvs EXCEPT ![i] = r.srv]]
    ELSE [res |-> Ok, servers |-> srvs]

\* WebSocketSender::send_string(&self, string)
send_string(self, string, srvs) ==
    IF self.sender.some
    THEN LET i == self.sender.val
             r == BroadcasterSend(srvs[i], string)
         IN  [res |-> map_err(r.res, "Unable to broadcast to websocket clients: "),
              servers |-> [srvs EXCEPT ![i] = r.srv]]
    ELSE [res |-> Ok, servers |-> srvs]

\* Variant: the event is rendered with {:?} instead of serde_json.
register_debug(self, kind, srvs) ==
    LET s == to_string(kind)
    IN  IF ~s.ok
        THEN [res |-> Err("Unable to serialize event: " \o s.err), servers |-> srvs]
        ELSE send_string(self, debug_string(kind), srvs)

\* Variant: a dummy handle returns before the event is serialized.
register_dummy_first(self, kind, srvs) ==
    LET s == to_string(kind)
    IN  IF ~self.sender.some
        THEN [res |-> Ok, servers |-> srvs]
        ELSE IF ~s.ok
        THEN [res |-> Err("Unable to serialize event: " \o s.err), servers |-> srvs]
        ELSE send_string(self, s.val, srvs)

\* EventHandler::register(&self, kind)
register(self, kind, srvs) ==
    LET s == to_string(kind)
    IN  IF ~s.ok
        THEN [res |-> Err("Unable to serialize event: " \o s.err), servers |-> srvs]
        ELSE send_string(self, s.val, srvs)

(* ------------------------------ logging ------------------------------- *)

StartingLine(addr) ==
    [level |-> "info", msg |-> "Websocket server starting",
     kv |-> <<"listen_address", addr>>]

StoppedLine == [level |-> "info", msg |-> "Websocket server stopped", kv |-> <<>>]

FailedLine(e) ==
    [level |-> "error", msg |-> "Websocket server failed to start",
     kv |-> <<"error", e>>]

NStarts == Cardinality({i \in 1..Len(log) : log[i].msg = "Websocket server starting"})

NDummies == Cardinality({i \in 1..Len(handles) : ~handles[i].sender.some})

(* ----------------------------- call record ---------------------------- *)

NoCall == [op |-> "", h |-> 0, text |-> "", cfg |-> NoConfig, res |-> Ok]

Idle == [pc |-> "idle", op |-> "", h |-> 0, text |-> "", ev |-> NoEvent, res |-> Ok]

Threads == 1..NThreads

(* ------------------------------- Init --------------------------------- *)

\* Nothing constructed yet; other programs may already hold some addresses.
Init ==
    /\ handles = <<>>
    /\ servers = <<>>
    /\ bound \in SUBSET Addrs
    /\ log = <<>>
    /\ conn = 0
    /\ frames = <<>>
    /\ last = NoCall
    /\ ncalls = 0
    /\ th = [t \in Threads |-> Idle]
    /\ okDone = [x \in AllTexts |-> 0]

(* ------------------------------ actions ------------------------------- *)

\* A caller builds a dummy handle.
Dummy ==
    /\ NDummies < MaxDummies
    /\ handles' = Append(handles, dummy)
    /\ last' = [NoCall EXCEPT !.op = "dummy", !.h = Len(handles) + 1]
    /\ UNCHANGED <<servers, bound, log, conn, frames, ncalls, th, okDone>>

\* Variant: the "starting" line is logged once the WebSocket exists.
start_server_log_on_success(config, newOk, hs, srvs, lg) ==
    LET addr == server_string(config)
    IN  IF ~newOk
        THEN [res |-> Err("Failed to initialize websocket server: Io"),
              handles |-> hs, servers |-> srvs, log |-> lg]
        ELSE [res |-> Ok,
              handles |-> Append(hs, [sender |-> Some(Len(srvs) + 1)]),
              servers |-> Append(srvs, [addr |-> addr, st |-> "spawned",
                                        sent |-> <<>>, ndeliv |-> 0]),
              log |-> Append(lg, StartingLine(addr))]

\* Variant: a config with enabled = false yields a dummy handle.
start_server_checks_enabled(config, newOk, hs, srvs, lg) ==
    LET addr == server_string(config)
        lg1  == Append(lg, StartingLine(addr))
    IN  IF ~config.enabled
        THEN [res |-> Ok, handles |-> Append(hs, dummy), servers |-> srvs, log |-> lg]
        ELSE IF ~newOk
        THEN [res |-> Err("Failed to initialize websocket server: Io"),
              handles |-> hs, servers |-> srvs, log |-> lg1]
        ELSE [res |-> Ok,
              handles |-> Append(hs, [sender |-> Some(Len(srvs) + 1)]),
              servers |-> Append(srvs, [addr |-> addr, st |-> "spawned",
                                        sent |-> <<>>, ndeliv |-> 0]),
              log |-> lg1]

\* start_server(config, log); newOk is whether WebSocket::new succeeds.
start_server(config, newOk, hs, srvs, lg) ==
    LET addr == server_string(config)
        lg1  == Append(lg, StartingLine(addr))
    IN  IF ~newOk
        THEN [res |-> Err("Failed to initialize websocket server: Io"),
              handles |-> hs, servers |-> srvs, log |-> lg1]
        ELSE [res |-> Ok,
              handles |-> Append(hs, [sender |-> Some(Len(srvs) + 1)]),
              servers |-> Append(srvs, [addr |-> addr, st |-> "spawned",
                                        sent |-> <<>>, ndeliv |-> 0]),
              log |-> lg1]

\* Variant: start_server binds the address itself before it returns.
StartServerJoin(config, newOk) ==
    /\ NStarts < MaxStarts
    /\ LET addr == server_string(config)
           lg1  == Append(log, StartingLine(addr))
       IN  IF newOk /\ addr \notin bound
           THEN /\ handles' = Append(handles, [sender |-> Some(Len(servers) + 1)])
                /\ servers' = Append(servers, [addr |-> addr, st |-> "listening",
                                               sent |-> <<>>, ndeliv |-> 0])
                /\ bound' = bound \cup {addr}
                /\ log' = lg1
                /\ last' = [NoCall EXCEPT !.op = "start_server", !.cfg = config,
                                          !.h = Len(handles) + 1]
           ELSE /\ handles' = handles
                /\ servers' = servers
                /\ bound' = bound
                /\ log' = lg1
                /\ last' = [NoCall EXCEPT !.op = "start_server", !.cfg = config,
                              !.res = Err("Failed to initialize websocket server: Io")]
    /\ UNCHANGED <<conn, frames, ncalls, th, okDone>>

StartServer(config, newOk) ==
    /\ NStarts < MaxStarts
    /\ LET r == start_server(config, newOk, handles, servers, log)
       IN  /\ handles' = r.handles
           /\ servers' = r.servers
           /\ log' = r.log
           /\ last' = [NoCall EXCEPT !.op = "start_server", !.res = r.res,
                                     !.cfg = config,
                                     !.h = IF r.res.ok THEN Len(r.handles) ELSE 0]
    /\ UNCHANGED <<bound, conn, frames, ncalls, th, okDone>>

\* The listener thread of server i enters server.listen(server_string): bind.
Listen(i) ==
    /\ servers[i].st = "spawned"
    /\ IF servers[i].addr \in bound
       THEN /\ servers' = [servers EXCEPT ![i].st = "failed"]
            /\ log' = Append(log, FailedLine("AddrInUse"))
            /\ bound' = bound
       ELSE /\ servers' = [servers EXCEPT ![i].st = "listening"]
            /\ bound' = bound \cup {servers[i].addr}
            /\ log' = log
    /\ UNCHANGED <<handles, conn, frames, last, ncalls, th, okDone>>

\* server.listen returns: Ok(_) logs "stopped", Err(e) logs the error.
ListenReturn(i, ok) ==
    /\ servers[i].st = "listening"
    /\ servers' = [servers EXCEPT ![i].st = IF ok THEN "stopped" ELSE "failed"]
    /\ log' = Append(log, IF ok THEN StoppedLine ELSE FailedLine("Io"))
    /\ bound' = bound \ {servers[i].addr}
    /\ conn' = IF conn = i THEN 0 ELSE conn
    /\ frames' = IF conn = i THEN <<>> ELSE frames
    /\ UNCHANGED <<handles, last, ncalls, th, okDone>>

\* The event loop of listening server i takes the next command off the
\* channel and writes it as a text frame to every connected client.
Deliver(i) ==
    /\ servers[i].st = "listening"
    /\ servers[i].ndeliv < Len(servers[i].sent)
    /\ servers' = [servers EXCEPT ![i].ndeliv = @ + 1]
    /\ frames' = IF conn = i
                 THEN Append(frames, servers[i].sent[servers[i].ndeliv + 1])
                 ELSE frames
    /\ UNCHANGED <<handles, bound, log, conn, last, ncalls, th, okDone>>

\* The test client connects to listening server i, or disconnects.
ClientConnect(i) ==
    /\ conn = 0
    /\ servers[i].st = "listening"
    /\ conn' = i
    /\ frames' = <<>>
    /\ UNCHANGED <<handles, servers, bound, log, last, ncalls, th, okDone>>

ClientDisconnect ==
    /\ conn # 0
    /\ conn' = 0
    /\ frames' = <<>>
    /\ UNCHANGED <<handles, servers, bound, log, last, ncalls, th, okDone>>

\* Variant: a failed send clears the handle's broadcaster.
SendStringDropsSender(h, string) ==
    /\ ncalls < MaxCalls
    /\ LET r == send_string(handles[h], string, servers)
       IN  /\ servers' = r.servers
           /\ handles' = IF r.res.ok THEN handles
                         ELSE [handles EXCEPT ![h].sender = None]
           /\ last' = [NoCall EXCEPT !.op = "send_string", !.h = h,
                                     !.text = string, !.res = r.res]
    /\ ncalls' = ncalls + 1
    /\ UNCHANGED <<bound, log, conn, frames, th, okDone>>

\* A caller invokes handle h's send_string(string).
SendString(h, string) ==
    /\ ncalls < MaxCalls
    /\ LET r == send_string(handles[h], string, servers)
       IN  /\ servers' = r.servers
           /\ last' = [NoCall EXCEPT !.op = "send_string", !.h = h,
                                     !.text = string, !.res = r.res]
    /\ ncalls' = ncalls + 1
    /\ UNCHANGED <<handles, bound, log, conn, frames, th, okDone>>

\* A caller invokes handle h's register(kind).
Register(h, kind) ==
    /\ ncalls < MaxCalls
    /\ LET r == register(handles[h], kind, servers)
       IN  /\ servers' = r.servers
           /\ last' = [NoCall EXCEPT !.op = "register", !.h = h,
                                     !.text = to_string(kind).val, !.res = r.res]
    /\ ncalls' = ncalls + 1
    /\ UNCHANGED <<handles, bound, log, conn, frames, th, okDone>>

Next ==
    \/ Dummy
    \/ \E c \in Configs, newOk \in BOOLEAN : StartServer(c, newOk)
    \/ \E i \in 1..Len(servers) : Listen(i)
    \/ \E i \in 1..Len(servers), ok \in BOOLEAN : ListenReturn(i, ok)
    \/ \E i \in 1..Len(servers) : Deliver(i)
    \/ \E i \in 1..Len(servers) : ClientConnect(i)
    \/ ClientDisconnect
    \/ \E h \in 1..Len(handles), s \in Texts : SendString(h, s)
    \/ \E h \in 1..Len(handles), e \in Events : Register(h, e)

Spec == Init /\ [][Next]_vars

(* ------------------------------ properties ---------------------------- *)

IsLive(h) == handles[h].sender.some

HandleIds == 1..Len(handles)

ServerIds == 1..Len(servers)

\* A step of some listener thread.
ListenerStep ==
    \/ \E i \in ServerIds : Listen(i)
    \/ \E i \in ServerIds, ok \in BOOLEAN : ListenReturn(i, ok)

SampleEvent == [kind |-> "test", value |-> 1]

\* Number of occurrences of x in sequence q
Count(q, x) == Cardinality({k \in 1..Len(q) : q[k] = x})

\* C1: on a handle built by dummy(), send_string of any text and register of
\* any serializable event return Ok and change nothing: no server's channel,
\* no client's frames, no handle, no log line.
C1_DummyCallsAreNoOps ==
    [][ /\ \A h \in HandleIds, x \in Texts :
              SendString(h, x) /\ ~IsLive(h)
                  => /\ last'.res = Ok
                     /\ UNCHANGED <<handles, servers, bound, log, conn, frames>>
        /\ \A h \in HandleIds, e \in Events :
              Register(h, e) /\ ~IsLive(h) /\ to_string(e).ok
                  => /\ last'.res = Ok
                     /\ UNCHANGED <<handles, servers, bound, log, conn, frames>>
      ]_vars

\* A register call on the dummy handle succeeded after an earlier call, while
\* a live server holds a forwarded text.
C1_Witness ==
    /\ last.op = "register"
    /\ last.h \in HandleIds
    /\ ~IsLive(last.h)
    /\ last.res = Ok
    /\ ncalls >= 2
    /\ \E i \in ServerIds : Len(servers[i].sent) > 0

\* C2: start_server with a config whose address:port is already bound fails
\* with an initialization error and returns no handle.
C2_AddrInUseFailsStart ==
    [][ \A c \in Configs, newOk \in BOOLEAN :
            StartServer(c, newOk) /\ server_string(c) \in bound
                => /\ ~last'.res.ok
                   /\ handles' = handles
      ]_vars

\* C3: register(handle, event) of a serializable event has the result and
\* the effect of send_string(handle, serialize(event)); on a live handle whose
\* broadcaster accepts, exactly the JSON text of the event is appended once.
C3_RegisterIsSendOfJson ==
    [][ \A h \in HandleIds, e \in Events :
            Register(h, e) /\ to_string(e).ok
                => LET r == send_string(handles[h], to_string(e).val, servers)
                   IN  /\ last'.res = r.res
                       /\ servers' = r.servers
                       /\ UNCHANGED <<handles, conn, frames, log>>
                       /\ IsLive(h) /\ last'.res.ok
                            => LET i == handles[h].sender.val
                               IN  /\ servers'[i].sent =
                                        Append(servers[i].sent, last'.text)
                                   /\ e = SampleEvent =>
                                        last'.text = "{\"kind\":\"test\",\"value\":1}"
      ]_vars

\* register on a live handle succeeded and the server's channel ends with the
\* JSON text of the sample event.
C3_Witness ==
    /\ last.op = "register"
    /\ last.h \in HandleIds
    /\ IsLive(last.h)
    /\ last.res.ok
    /\ LET q == servers[handles[last.h].sender.val].sent
       IN  Len(q) > 0 /\ q[Len(q)] = "{\"kind\":\"test\",\"value\":1}"

C5_StartingLineOnlyOnSuccess ==
    [][ /\ \A c \in Configs, newOk \in BOOLEAN :
              StartServer(c, newOk)
                  => /\ server_string(c) \notin bound
                          => /\ last'.res.ok
                             /\ handles'[last'.h].sender.some
                             /\ log' = Append(log, StartingLine(server_string(c)))
                     /\ ~last'.res.ok => log' = log
        /\ \A i \in ServerIds :
              servers[i].st # "failed" /\ servers'[i].st = "failed"
                  => \E e \in {"AddrInUse", "Io"} : log' = Append(log, FailedLine(e))
      ]_vars

\* C5 amended: every start_server call logs exactly one "starting" line
\* naming address:port, also when it fails; it returns a live handle exactly
\* when WebSocket::new succeeds; "starting" lines come from start_server
\* only; a listener that ends with a failure logs an error line.
C5_StartingLineOnEveryStart ==
    [][ /\ \A c \in Configs, newOk \in BOOLEAN :
              StartServer(c, newOk)
                  => /\ log' = Append(log, StartingLine(server_string(c)))
                     /\ last'.res.ok <=> newOk
                     /\ newOk => /\ Len(handles') = Len(handles) + 1
                                 /\ last'.h = Len(handles')
                                 /\ handles'[last'.h].sender.some
                     /\ ~newOk => handles' = handles
        /\ (Len(log') > Len(log) /\ log'[Len(log')].msg = "Websocket server starting")
              => \E c \in Configs, newOk \in BOOLEAN : StartServer(c, newOk)
        /\ \A i \in ServerIds :
              servers[i].st # "failed" /\ servers'[i].st = "failed"
                  => \E e \in {"AddrInUse", "Io"} : log' = Append(log, FailedLine(e))
      ]_vars

\* A start_server call failed and its "starting" line is in the log.
C5_Witness ==
    /\ last.op = "start_server"
    /\ ~last.res.ok
    /\ \E k \in 1..Len(log) : log[k] = StartingLine(server_string(last.cfg))

\* Frames of the connected client: a run of the texts its server's broadcaster
\* accepted, in order, each once, up to the last command the loop has taken.
FramesAreForwardedTexts ==
    conn # 0 =>
        LET srv == servers[conn]
        IN  /\ Len(frames) <= srv.ndeliv
            /\ frames = SubSeq(srv.sent, srv.ndeliv - Len(frames) + 1, srv.ndeliv)

\* C6: send_string on a live handle hands the text to the broadcaster exactly
\* once; it returns Ok and the text is queued when the broadcaster accepts,
\* and the delivery error with nothing queued when the broadcaster reports
\* one; clients receive the queued texts, each once.
C6_LiveSendForwardsOnce ==
    /\ []FramesAreForwardedTexts
    /\ [][ \A h \in HandleIds, x \in Texts :
              SendString(h, x) /\ IsLive(h)
                  => LET i == handles[h].sender.val
                         b == BroadcasterSend(servers[i], x)
                     IN  /\ \A j \in ServerIds \ {i} : servers'[j] = servers[j]
                         /\ servers'[i] = [servers[i] EXCEPT !.sent = servers'[i].sent]
                         /\ b.res.ok
                              => /\ last'.res = Ok
                                 /\ servers'[i].sent = Append(servers[i].sent, x)
                         /\ ~b.res.ok
                              => /\ last'.res =
                                      Err("Unable to broadcast to websocket clients: "
                                            \o b.res.err)
                                 /\ servers'[i].sent = servers[i].sent
         ]_vars

\* The connected client holds a frame sent through the live handle, and a
\* later send_string on that handle has returned the delivery error.
C6_Witness ==
    /\ conn # 0
    /\ Len(frames) > 0
    /\ last.op = "send_string"
    /\ last.h \in HandleIds
    /\ IsLive(last.h)
    /\ handles[last.h].sender.val = conn
    /\ ~last.res.ok

\* C7: start_server returns with the listener thread only spawned: nothing is
\* bound and no listener line is logged by the call; later listener steps
\* only log and leave the returned result and the handles as they were.
C7_StartDoesNotWaitForListener ==
    [][ /\ \A c \in Configs, newOk \in BOOLEAN :
              StartServer(c, newOk)
                  => /\ bound' = bound
                     /\ Len(log') = Len(log) + 1
                     /\ last'.res.ok
                          => servers'[handles'[last'.h].sender.val].st = "spawned"
        /\ ListenerStep => /\ last' = last
                           /\ handles' = handles
      ]_vars

\* The listener failed after start_server had returned Ok.
C7_Witness ==
    /\ last.op = "start_server"
    /\ last.res.ok
    /\ \E i \in ServerIds : servers[i].st = "failed"
    /\ \E k \in 1..Len(log) : log[k].level = "error"

\* C8: a handle keeps the sender it was built with: no step changes or
\* removes an existing handle.
C8_HandleModeFixed ==
    [][ /\ Len(handles') >= Len(handles)
        /\ \A h \in HandleIds : handles'[h] = handles[h]
      ]_vars

\* A live handle whose listener has ended has just had a send fail, and a
\* dummy handle exists beside it.
C8_Witness ==
    /\ last.op \in {"send_string", "register"}
    /\ last.h \in HandleIds
    /\ IsLive(last.h)
    /\ ~last.res.ok
    /\ servers[handles[last.h].sender.val].st \in {"stopped", "failed"}
    /\ \E h \in HandleIds : ~IsLive(h)

\* C10: start_server does not read config.enabled: the call has the effect
\* and result of the same call with the flag flipped, so a successful call
\* yields a live handle for enabled = false too; a handle without a
\* broadcaster is only ever built by dummy().
C10_EnabledIsIgnored ==
    [][ /\ \A c \in Configs, newOk \in BOOLEAN :
              StartServer(c, newOk)
                  => LET r == start_server([c EXCEPT !.enabled = ~@], newOk,
                                           handles, servers, log)
                     IN  /\ handles' = r.handles
                         /\ servers' = r.servers
                         /\ log' = r.log
                         /\ last'.res = r.res
                         /\ newOk => /\ last'.res.ok
                                     /\ handles'[last'.h].sender.some
                                     /\ Len(servers') = Len(servers) + 1
        /\ (Len(handles') > Len(handles) /\ ~handles'[Len(handles')].sender.some)
              => last'.op = "dummy"
      ]_vars

\* start_server with enabled = false returned a live handle.
C10_Witness ==
    /\ last.op = "start_server"
    /\ ~last.cfg.enabled
    /\ last.res.ok
    /\ last.h \in HandleIds
    /\ IsLive(last.h)

(* --------------------- concurrent callers of a handle ------------------ *)

\* The state after dummy() and one successful start_server(DefaultConfig):
\* handle 1 is the dummy, handle 2 holds the broadcaster of server 1, whose
\* listener thread has been spawned.
InitConc ==
    /\ handles = <<dummy, [sender |-> Some(1)]>>
    /\ servers = <<[addr |-> server_string(DefaultConfig), st |-> "spawned",
                    sent |-> <<>>, ndeliv |-> 0]>>
    /\ bound = {}
    /\ log = <<StartingLine(server_string(DefaultConfig))>>
    /\ conn = 0
    /\ frames = <<>>
    /\ last = [NoCall EXCEPT !.op = "start_server", !.cfg = DefaultConfig, !.h = 2]
    /\ ncalls = 0
    /\ th = [t \in Threads |-> Idle]
    /\ okDone = [x \in AllTexts |-> 0]

\* Thread t enters send_string(string) on handle h.
TCallSendString(t, h, string) ==
    /\ th[t].pc = "idle"
    /\ ncalls < MaxCalls
    /\ th' = [th EXCEPT ![t] = [Idle EXCEPT !.pc = "send", !.op = "send_string",
                                            !.h = h, !.text = string]]
    /\ ncalls' = ncalls + 1
    /\ UNCHANGED <<handles, servers, bound, log, conn, frames, last, okDone>>

\* Thread t enters register(kind) on handle h.
TCallRegister(t, h, kind) ==
    /\ th[t].pc = "idle"
    /\ ncalls < MaxCalls
    /\ th' = [th EXCEPT ![t] = [Idle EXCEPT !.pc = "serialize", !.op = "register",
                                            !.h = h, !.ev = kind]]
    /\ ncalls' = ncalls + 1
    /\ UNCHANGED <<handles, servers, bound, log, conn, frames, last, okDone>>

\* register: serde_json::to_string(&kind).map_err(..)? on the caller's stack.
TSerialize(t) ==
    /\ th[t].pc = "serialize"
    /\ LET s == to_string(th[t].ev)
       IN  th' = [th EXCEPT ![t] =
                    IF s.ok
                    THEN [@ EXCEPT !.pc = "send", !.text = s.val]
                    ELSE [@ EXCEPT !.pc = "ret",
                                   !.res = Err("Unable to serialize event: " \o s.err)]]
    /\ UNCHANGED <<handles, servers, bound, log, conn, frames, last, ncalls, okDone>>

\* Variant: the text goes through a buffer shared by the callers of the
\* handle, so a send may carry the text of another call in progress.
TSendSharedBuffer(t) ==
    /\ th[t].pc = "send"
    /\ \E u \in Threads :
          /\ th[u].pc = "send"
          /\ LET r == send_string(handles[th[t].h], th[u].text, servers)
             IN  /\ servers' = r.servers
                 /\ th' = [th EXCEPT ![t].pc = "ret", ![t].res = r.res]
    /\ UNCHANGED <<handles, bound, log, conn, frames, last, ncalls, okDone>>

\* The body of send_string; the broadcaster's channel serialises the sends.
TSend(t) ==
    /\ th[t].pc = "send"
    /\ LET r == send_string(handles[th[t].h], th[t].text, servers)
       IN  /\ servers' = r.servers
           /\ th' = [th EXCEPT ![t].pc = "ret", ![t].res = r.res]
    /\ UNCHANGED <<handles, bound, log, conn, frames, last, ncalls, okDone>>

\* Thread t's call returns its result to its caller.
TReturn(t) ==
    /\ th[t].pc = "ret"
    /\ okDone' = IF th[t].res.ok /\ handles[th[t].h].sender.some
                 THEN [okDone EXCEPT ![th[t].text] = @ + 1]
                 ELSE okDone
    /\ th' = [th EXCEPT ![t] = Idle]
    /\ UNCHANGED <<handles, servers, bound, log, conn, frames, last, ncalls>>

NextConc ==
    \/ \E t \in Threads, h \in 1..Len(handles), s \in Texts : TCallSendString(t, h, s)
    \/ \E t \in Threads, h \in 1..Len(handles), e \in Events : TCallRegister(t, h, e)
    \/ \E t \in Threads : TSerialize(t)
    \/ \E t \in Threads : TSend(t)
    \/ \E t \in Threads : TReturn(t)
    \/ \E i \in 1..Len(servers) : Listen(i)
    \/ \E i \in 1..Len(servers), ok \in BOOLEAN : ListenReturn(i, ok)
    \/ \E i \in 1..Len(servers) : Deliver(i)

SpecConc == InitConc /\ [][NextConc]_vars

\* Calls on live handles that hold an Ok result for text x and have not yet
\* returned it.
PendingOk(x) ==
    Cardinality({t \in Threads : /\ th[t].pc = "ret"
                                 /\ th[t].res.ok
                                 /\ IsLive(th[t].h)
                                 /\ th[t].text = x})

\* Texts x accepted so far by the broadcasters
Forwarded(x) ==
    LET RECURSIVE Sum(_)
        Sum(i) == IF i = 0 THEN 0 ELSE Count(servers[i].sent, x) + Sum(i - 1)
    IN  Sum(Len(servers))

\* C9: under every interleaving of the callers, each text is in the
\* broadcasters' channels once per call on a live handle that got Ok for it
\* and never for a call that got an error; the handles are never written.
C9_ConcurrentCallsForwardOwnText ==
    /\ handles = <<dummy, [sender |-> Some(1)]>>
    /\ \A x \in AllTexts : Forwarded(x) = okDone[x] + PendingOk(x)
    /\ \A i \in ServerIds : \A k \in 1..Len(servers[i].sent) :
          servers[i].sent[k] \in AllTexts

\* Two threads are inside calls on the live handle with different texts, one
\* already holding its Ok result.
C9_Witness ==
    \E t, u \in Threads :
        /\ t # u
        /\ th[t].pc = "ret" /\ th[t].res.ok /\ IsLive(th[t].h)
        /\ th[u].pc = "send" /\ IsLive(th[u].h)
        /\ th[t].text # th[u].text

====
